---- MODULE Spec2Model ----
(***************************************************************************)
(* Model of the MeshMetrics library (src/lib/meme/meme.cpp) and of the     *)
(* console report of the command line tool (src/app/main.cpp).             *)
(*                                                                         *)
(* Numbers.  A double is a record [k, n, d]:                               *)
(*   k = "fin"  the rational n/d (d > 0, lowest terms)                     *)
(*   k = "max"  std::numeric_limits<double>::max() times n/d, n/d <= 1     *)
(*   k = "inf"  +infinity                                                  *)
(*   k = "nan"  not-a-number                                               *)
(* The vertex arrays are drawn from point sets all of whose distances,     *)
(* bounding-box diagonals and triangle areas are rational, so that norm()  *)
(* and sqrt() are computed exactly.  acos is tabulated in degrees on the   *)
(* cosines these triangles have.  The shape quality carries the factor     *)
(* sqrt(3); its finite values are held in units of sqrt(3).                *)
(***************************************************************************)
EXTENDS Integers, Sequences, FiniteSets, TLC

VARIABLES op, V, F, pc, i, metrics, tab, E, lens, oob, out

vars == <<op, V, F, pc, i, metrics, tab, E, lens, oob, out>>

(***************************************************************************)
(* Bounds                                                                  *)
(***************************************************************************)
MaxTris == 3

MaxReport == 22

(***************************************************************************)
(* Double arithmetic                                                       *)
(***************************************************************************)
RECURSIVE GCD(_, _)
GCD(x, y) == IF y = 0 THEN x ELSE GCD(y, x % y)

Abs(x) == IF x < 0 THEN -x ELSE x

Fin(n, d) ==
    LET s == IF d < 0 THEN -1 ELSE 1
        g == GCD(Abs(n), Abs(d))
    IN  [k |-> "fin", n |-> (s * n) \div g, d |-> (s * d) \div g]

Num(n) == [k |-> "fin", n |-> n, d |-> 1]

DblMax == [k |-> "max", n |-> 1, d |-> 1]

Inf == [k |-> "inf", n |-> 1, d |-> 1]

NaN == [k |-> "nan", n |-> 0, d |-> 1]

Zero == Num(0)

\* x < y on doubles; every comparison with NaN is false
Less(x, y) ==
    CASE x.k = "nan" \/ y.k = "nan" -> FALSE
      [] x.k = "inf" -> FALSE
      [] y.k = "inf" -> TRUE
      [] x.k = "fin" /\ y.k = "max" -> TRUE
      [] x.k = "max" /\ y.k = "fin" -> FALSE
      [] OTHER -> x.n * y.d < y.n * x.d

Add(x, y) ==
    CASE x.k = "nan" \/ y.k = "nan" -> NaN
      [] x.k = "inf" \/ y.k = "inf" -> Inf
      [] x.k = "max" -> x
      [] y.k = "max" -> y
      [] OTHER -> Fin(x.n * y.d + y.n * x.d, x.d * y.d)

Sub(x, y) == Fin(x.n * y.d - y.n * x.d, x.d * y.d)

\* product of non-negative doubles: 0 * inf is NaN
Mul(x, y) ==
    CASE x.k = "nan" \/ y.k = "nan" -> NaN
      [] x.k = "inf" -> IF y.k = "fin" /\ y.n = 0 THEN NaN ELSE Inf
      [] y.k = "inf" -> IF x.k = "fin" /\ x.n = 0 THEN NaN ELSE Inf
      [] OTHER -> Fin(x.n * y.n, x.d * y.d)

\* IEEE-754 division by a finite, non-negative divisor
Div(x, y) ==
    CASE x.k = "nan" -> NaN
      [] x.k = "inf" -> Inf
      [] y.n = 0 -> IF x.k = "fin" /\ x.n = 0 THEN NaN ELSE Inf
      [] x.k = "max" ->
            IF x.n * y.d > x.d * y.n THEN Inf
            ELSE [k |-> "max", n |-> Fin(x.n * y.d, x.d * y.n).n,
                               d |-> Fin(x.n * y.d, x.d * y.n).d]
      [] OTHER -> Fin(x.n * y.d, x.d * y.n)

\* std::min(a, b) is (b < a) ? b : a, std::max(a, b) is (a < b) ? b : a
StdMin(x, y) == IF Less(y, x) THEN y ELSE x

StdMax(x, y) == IF Less(x, y) THEN y ELSE x

\* std::clamp(v, lo, hi) is (v < lo) ? lo : (hi < v) ? hi : v
Clamp(v, lo, hi) == IF Less(v, lo) THEN lo ELSE IF Less(hi, v) THEN hi ELSE v

ISqrt(n) == CHOOSE r \in 0..n : r * r = n

IsSquare(n) == \E r \in 0..n : r * r = n

\* std::sqrt on the rationals whose root is rational
Sqrt(x) == IF x.k = "fin" THEN Fin(ISqrt(x.n), ISqrt(x.d)) ELSE x

\* std::acos(x) * (180.0 / M_PI), to a hundredth of a degree
AcosDeg(x) ==
    CASE x = Fin(1, 1)   -> Num(0)
      [] x = Fin(4, 5)   -> Fin(3687, 100)
      [] x = Fin(3, 5)   -> Fin(5313, 100)
      [] x = Fin(7, 25)  -> Fin(7374, 100)
      [] x = Fin(0, 1)   -> Num(90)
      [] x = Fin(-7, 25) -> Fin(10626, 100)
      [] x = Fin(-1, 1)  -> Num(180)

(***************************************************************************)
(* Geometry                                                                *)
(***************************************************************************)
\* The vertex rows the inputs are prefixes of (row k is Points[k + 1])
Points == << <<0, 0, 0>>, <<3, 0, 0>>, <<0, 4, 0>>, <<-3, 0, 0>>, <<0, -4, 0>> >>

\* (p - q).norm()
Norm(p, q) ==
    Sqrt(Num((p[1] - q[1]) * (p[1] - q[1]) + (p[2] - q[2]) * (p[2] - q[2])
             + (p[3] - q[3]) * (p[3] - q[3])))

\* V.row(k), rows numbered from 0
Row(Vx, k) == Vx[k + 1]

SeqMax(s) == CHOOSE x \in {s[j] : j \in 1..Len(s)} : \A j \in 1..Len(s) : s[j] <= x

SeqMin(s) == CHOOSE x \in {s[j] : j \in 1..Len(s)} : \A j \in 1..Len(s) : x <= s[j]

Col(Vx, c) == [j \in 1..Len(Vx) |-> Vx[j][c]]

\* (V.colwise().maxCoeff() - V.colwise().minCoeff()).squaredNorm(), V not empty
Diag2(Vx) ==
    LET e(c) == SeqMax(Col(Vx, c)) - SeqMin(Col(Vx, c))
    IN  e(1) * e(1) + e(2) * e(2) + e(3) * e(3)

\* (bbox_max - bbox_min).norm()
Diag(Vx) == Sqrt(Num(Diag2(Vx)))

\* a, b, c of one triangle
EdgeLens(Vx, t) ==
    LET v0 == Row(Vx, t[1])
        v1 == Row(Vx, t[2])
        v2 == Row(Vx, t[3])
    IN  <<Norm(v1, v0), Norm(v2, v1), Norm(v0, v2)>>

law_of_cosines(a, b, c) ==
    LET x == Div(Sub(Add(Mul(b, b), Mul(c, c)), Mul(a, a)), Mul(Num(2), Mul(b, c)))
        clamped == Clamp(x, Num(-1), Num(1))
    IN  AcosDeg(clamped)

\* the angles array of one triangle
Angles(e) ==
    <<law_of_cosines(e[1], e[2], e[3]),
      law_of_cosines(e[2], e[1], e[3]),
      law_of_cosines(e[3], e[1], e[2])>>

TriMinAngle(e) ==
    LET angles == Angles(e)
    IN  StdMin(angles[1], StdMin(angles[2], angles[3]))

TriMaxAngle(e) ==
    LET angles == Angles(e)
    IN  StdMax(angles[1], StdMax(angles[2], angles[3]))

SemiPerimeter(e) == Mul(Add(e[1], Add(e[2], e[3])), Fin(1, 2))

\* Heron's formula, radicand clamped to [0, max]
Area(e) ==
    LET s == SemiPerimeter(e)
        radicand == Mul(s, Mul(Sub(s, e[1]), Mul(Sub(s, e[2]), Sub(s, e[3]))))
        clamped == Clamp(radicand, Zero, DblMax)
    IN  Sqrt(clamped)

HasZeroEdge(e) == e[1] = Zero \/ e[2] = Zero \/ e[3] = Zero

HasZeroArea(e) == Area(e) = Zero \/ SemiPerimeter(e) = Zero

RadiusRatio(e) ==
    LET area == Area(e)
        inradius == Div(area, SemiPerimeter(e))
        circumradius == Div(Mul(e[1], Mul(e[2], e[3])), Mul(Num(4), area))
    IN  Div(Mul(Num(2), inradius), circumradius)

\* in units of sqrt(3)
ShapeQuality(e) ==
    Div(Mul(Num(4), Area(e)),
        Add(Mul(e[1], e[1]), Add(Mul(e[2], e[2]), Mul(e[3], e[3]))))

(***************************************************************************)
(* Inputs: V is a sequence of vertex rows, F a table [cols, rows] of       *)
(* 0-based vertex indices                                                  *)
(***************************************************************************)
Prefix(n) == SubSeq(Points, 1, n)

VertexCounts == {n \in 0..Len(Points) : n = 0 \/ IsSquare(Diag2(Prefix(n)))}

TriChoices ==
    { <<0, 1, 2>>, <<1, 2, 3>>, <<2, 1, 4>>, <<3, 0, 1>>, <<0, 0, 1>>, <<0, 1, 0>>,
      <<0, 0, 0>> }

TrisFor(n) == {t \in TriChoices : \A j \in 1..3 : t[j] < n}

SeqsUpTo(S, m) == UNION {[1..l -> S] : l \in 0..m}

Tables(n) ==
    {[cols |-> 3, rows |-> r] : r \in SeqsUpTo(TrisFor(n), MaxTris)}
    \cup {[cols |-> 2, rows |-> r] : r \in SeqsUpTo({<<0, 0>>} \cap {t \in {<<0, 0>>} : n > 0}, 1)}
    \cup {[cols |-> 4, rows |-> r] : r \in SeqsUpTo({<<0, 0, 0, 0>>} \cap {t \in {<<0, 0, 0, 0>>} : n > 0}, 1)}

\* F.rows(), V.rows()
NumRows(Fx) == Len(Fx.rows)

\* the test that guards the throw at the head of each operation
BadColsLess(Fx) == Fx.cols < 3

BadCols(Fx) == Fx.cols # 3

(***************************************************************************)
(* get_metrics                                                             *)
(***************************************************************************)
MinFields == {"min_min_angle", "min_max_angle", "min_ratio", "min_shape", "min_edge"}

MaxFields == {"max_min_angle", "max_max_angle", "max_ratio", "max_shape", "max_edge"}

AvgFields == {"avg_min_angle", "avg_max_angle", "avg_ratio", "avg_shape", "avg_edge"}

CountFields == {"num_f", "num_v"}

FlagFields == {"has_zero_area", "has_zero_edge"}

MetricsFields == MinFields \cup MaxFields \cup AvgFields \cup CountFields \cup FlagFields

\* the array before the loop: zeros, max() in the min fields, the two counts
MetricsInit(Vx, Fx) ==
    [f \in MetricsFields |->
        IF f \in MinFields THEN DblMax
        ELSE IF f = "num_f" THEN Num(NumRows(Fx))
        ELSE IF f = "num_v" THEN Num(Len(Vx))
        ELSE Zero]

\* the zero-edge branch
ZeroEdgeStepEdge(m) == [m EXCEPT !.has_zero_edge = Num(1), !.min_edge = StdMin(@, Zero)]

ZeroEdgeStep(m) == [m EXCEPT !.has_zero_edge = Num(1)]

\* the six angle accumulators
AngleStepAssign(m, e) ==
    LET lo == TriMinAngle(e)
        hi == TriMaxAngle(e)
    IN  [m EXCEPT !.min_min_angle = StdMin(@, lo),
                  !.max_min_angle = StdMax(@, lo),
                  !.avg_min_angle = lo,
                  !.min_max_angle = StdMin(@, hi),
                  !.max_max_angle = StdMax(@, hi),
                  !.avg_max_angle = hi]

AngleStep(m, e) ==
    LET lo == TriMinAngle(e)
        hi == TriMaxAngle(e)
    IN  [m EXCEPT !.min_min_angle = StdMin(@, lo),
                  !.max_min_angle = StdMax(@, lo),
                  !.avg_min_angle = Add(@, lo),
                  !.min_max_angle = StdMin(@, hi),
                  !.max_max_angle = StdMax(@, hi),
                  !.avg_max_angle = Add(@, hi)]

\* the zero-area branch
ZeroAreaStep(m) == [m EXCEPT !.has_zero_area = Num(1)]

\* ratio, shape and edge accumulators
ShapeEdgeStep(m, e) ==
    LET radius_ratio == RadiusRatio(e)
        shape_quality == ShapeQuality(e)
    IN  [m EXCEPT !.min_ratio = StdMin(@, radius_ratio),
                  !.max_ratio = StdMax(@, radius_ratio),
                  !.avg_ratio = Add(@, radius_ratio),
                  !.min_shape = StdMin(@, shape_quality),
                  !.max_shape = StdMax(@, shape_quality),
                  !.avg_shape = Add(@, shape_quality),
                  !.min_edge = StdMin(@, StdMin(e[1], StdMin(e[2], e[3]))),
                  !.max_edge = StdMax(@, StdMax(e[1], StdMax(e[2], e[3]))),
                  !.avg_edge = Add(@, Add(e[1], Add(e[2], e[3])))]

\* one pass of the loop body
MetricsBodyAreaFirst(Vx, t, m) ==
    LET e == EdgeLens(Vx, t)
    IN  IF HasZeroEdge(e) THEN ZeroEdgeStep(m)
        ELSE IF HasZeroArea(e) THEN ZeroAreaStep(m)
        ELSE ShapeEdgeStep(AngleStep(m, e), e)

MetricsBody(Vx, t, m) ==
    LET e == EdgeLens(Vx, t)
    IN  IF HasZeroEdge(e) THEN ZeroEdgeStep(m)
        ELSE IF HasZeroArea(e) THEN ZeroAreaStep(AngleStep(m, e))
        ELSE ShapeEdgeStep(AngleStep(m, e), e)

\* the loop over rows from..to (1-based positions in the row sequence)
RECURSIVE MetricsLoop(_, _, _, _, _)
MetricsLoop(Vx, rows, from, to, m) ==
    IF from > to THEN m
    ELSE MetricsLoop(Vx, rows, from + 1, to, MetricsBody(Vx, rows[from], m))

\* the divisions after the loop
MetricsNorm(Vx, Fx, m) ==
    LET n == Num(NumRows(Fx))
        diag == Diag(Vx)
    IN  [m EXCEPT !.avg_min_angle = Div(@, n),
                  !.avg_max_angle = Div(@, n),
                  !.avg_ratio = Div(@, n),
                  !.avg_shape = Div(@, n),
                  !.avg_edge = Div(Div(@, Num(NumRows(Fx) * 3)), diag),
                  !.min_edge = Div(@, diag),
                  !.max_edge = Div(@, diag)]

\* the whole function, for a table of three columns
GetMetrics(Vx, Fx) ==
    IF NumRows(Fx) = 0 THEN MetricsInit(Vx, Fx)
    ELSE MetricsNorm(Vx, Fx, MetricsLoop(Vx, Fx.rows, 1, NumRows(Fx), MetricsInit(Vx, Fx)))

GM_Entry ==
    /\ op = "get_metrics" /\ pc = "entry"
    /\ IF BadCols(F)
       THEN pc' = "throw" /\ UNCHANGED <<metrics, i>>
       ELSE /\ metrics' = MetricsInit(V, F)
            /\ i' = 0
            /\ pc' = IF NumRows(F) = 0 THEN "done" ELSE "loop"
    /\ UNCHANGED <<op, V, F, tab, E, lens, oob, out>>

GM_Loop ==
    /\ op = "get_metrics" /\ pc = "loop" /\ i < NumRows(F)
    /\ metrics' = MetricsBody(V, F.rows[i + 1], metrics)
    /\ i' = i + 1
    /\ UNCHANGED <<op, V, F, pc, tab, E, lens, oob, out>>

GM_Return ==
    /\ op = "get_metrics" /\ pc = "loop" /\ i = NumRows(F)
    /\ metrics' = MetricsNorm(V, F, metrics)
    /\ pc' = "done"
    /\ UNCHANGED <<op, V, F, i, tab, E, lens, oob, out>>

(***************************************************************************)
(* get_metrics_per_tri                                                     *)
(* The table is an Eigen matrix: rows, cols and a column-major buffer of   *)
(* rows * cols doubles, element (r, c) at offset c * rows + r.             *)
(***************************************************************************)
min_angle == 0

max_angle == 1

ratio == 2

shape == 3

PerTriCols == 4

Idx(nr, r, c) == c * nr + r

\* the offsets metrics.row(r) covers
RowOffsets(nr, r) == {Idx(nr, r, c) : c \in 0..(PerTriCols - 1)}

\* resize(F.rows(), 4); fill(0); row(max_angle).fill(180): what is in the
\* buffer afterwards (offsets past the buffer are not part of it)
PerTriInit(nr) ==
    [rows |-> nr, cols |-> PerTriCols,
     data |-> [j \in 0..(PerTriCols * nr - 1) |->
                 IF j \in RowOffsets(nr, max_angle) THEN Num(180) ELSE Zero]]

\* row(max_angle) names a row the table does not have
FillOutOfRange(nr) == ~(max_angle \in 0..(nr - 1))

\* one pass of the loop body on table row r
PerTriBody(Vx, t, r, tb) ==
    LET e == EdgeLens(Vx, t)
        nr == tb.rows
        withAngles == [tb EXCEPT !.data[Idx(nr, r, min_angle)] = TriMinAngle(e),
                                 !.data[Idx(nr, r, max_angle)] = TriMaxAngle(e)]
    IN  IF HasZeroEdge(e) THEN tb
        ELSE IF HasZeroArea(e) THEN withAngles
        ELSE [withAngles EXCEPT !.data[Idx(nr, r, ratio)] = RadiusRatio(e),
                                !.data[Idx(nr, r, shape)] = ShapeQuality(e)]

RECURSIVE PerTriLoop(_, _, _, _)
PerTriLoop(Vx, rows, r, tb) ==
    IF r >= Len(rows) THEN tb
    ELSE PerTriLoop(Vx, rows, r + 1, PerTriBody(Vx, rows[r + 1], r, tb))

\* the whole function, for a table of three columns, when it returns
GetMetricsPerTri(Vx, Fx) == PerTriLoop(Vx, Fx.rows, 0, PerTriInit(NumRows(Fx)))

\* row r of a table as (min_angle, max_angle, ratio, shape)
TableRow(tb, r) == [c \in 1..tb.cols |-> tb.data[Idx(tb.rows, r, c - 1)]]

PT_Entry ==
    /\ op = "get_metrics_per_tri" /\ pc = "entry"
    /\ IF BadCols(F)
       THEN pc' = "throw" /\ UNCHANGED <<tab, i, oob>>
       ELSE /\ tab' = PerTriInit(NumRows(F))
            /\ i' = 0
            /\ oob' = FillOutOfRange(NumRows(F))
            /\ \/ pc' = IF NumRows(F) = 0 THEN "done" ELSE "loop"
               \/ FillOutOfRange(NumRows(F)) /\ pc' = "abort"
    /\ UNCHANGED <<op, V, F, metrics, E, lens, out>>

PT_Loop ==
    /\ op = "get_metrics_per_tri" /\ pc = "loop" /\ i < NumRows(F)
    /\ tab' = PerTriBody(V, F.rows[i + 1], i, tab)
    /\ i' = i + 1
    /\ UNCHANGED <<op, V, F, pc, metrics, E, lens, oob, out>>

PT_Return ==
    /\ op = "get_metrics_per_tri" /\ pc = "loop" /\ i = NumRows(F)
    /\ pc' = "done"
    /\ UNCHANGED <<op, V, F, i, metrics, tab, E, lens, oob, out>>

(***************************************************************************)
(* get_relative_edge_lengths                                               *)
(***************************************************************************)
\* igl::edges(F, E): the undirected edges of the triangles, each once, as
\* (smaller, larger) index, in order of the larger and then the smaller index
EdgeSet(Fx) ==
    {e \in UNION {{<<r[1], r[2]>>, <<r[2], r[3]>>, <<r[3], r[1]>>,
                   <<r[2], r[1]>>, <<r[3], r[2]>>, <<r[1], r[3]>>} :
                  r \in {Fx.rows[j] : j \in 1..NumRows(Fx)}} : e[1] < e[2]}

EdgeBefore(e, f) == e[2] < f[2] \/ (e[2] = f[2] /\ e[1] < f[1])

RECURSIVE SortEdges(_)
SortEdges(S) ==
    IF S = {} THEN <<>>
    ELSE LET first == CHOOSE e \in S : \A f \in S \ {e} : EdgeBefore(e, f)
         IN  <<first>> \o SortEdges(S \ {first})

Edges(Fx) == SortEdges(EdgeSet(Fx))

\* 1. / diag
InvDiag(Vx) == Div(Num(1), Diag(Vx))

\* l * inv_diag of one edge
RelLength(Vx, e) == Mul(Norm(Row(Vx, e[2]), Row(Vx, e[1])), InvDiag(Vx))

\* the whole function, for a table of three columns and a vertex array with rows
GetRelativeEdgeLengths(Vx, Fx) ==
    [rows |-> Len(Edges(Fx)),
     data |-> [j \in 1..Len(Edges(Fx)) |-> RelLength(Vx, Edges(Fx)[j])]]

\* the bounding box of a vertex array without rows reads coefficient 0 of an
\* empty matrix
BBoxOutOfRange(Vx) == Len(Vx) = 0

RE_Entry ==
    /\ op = "get_relative_edge_lengths" /\ pc = "entry"
    /\ IF BadCols(F)
       THEN pc' = "throw" /\ UNCHANGED <<E, lens, i, oob>>
       ELSE /\ oob' = BBoxOutOfRange(V)
            /\ E' = Edges(F)
            /\ lens' = [rows |-> Len(Edges(F)), data |-> <<>>]
            /\ i' = 0
            /\ \/ pc' = "loop"
               \/ BBoxOutOfRange(V) /\ pc' = "abort"
    /\ UNCHANGED <<op, V, F, metrics, tab, out>>

RE_Loop ==
    /\ op = "get_relative_edge_lengths" /\ pc = "loop" /\ i < Len(E)
    /\ lens' = [lens EXCEPT !.data = Append(@, RelLength(V, E[i + 1]))]
    /\ i' = i + 1
    /\ UNCHANGED <<op, V, F, pc, metrics, tab, E, oob, out>>

RE_Return ==
    /\ op = "get_relative_edge_lengths" /\ pc = "loop" /\ i = Len(E)
    /\ pc' = "done"
    /\ UNCHANGED <<op, V, F, i, metrics, tab, E, lens, oob, out>>

(***************************************************************************)
(* main: the console report.  out is the sequence of items written to      *)
(* std::cout.                                                              *)
(***************************************************************************)
\* enum Metrics, in index order
MetricsEnum ==
    <<"min_min_angle", "max_min_angle", "avg_min_angle",
      "min_max_angle", "max_max_angle", "avg_max_angle",
      "min_ratio", "max_ratio", "avg_ratio",
      "min_shape", "max_shape", "avg_shape",
      "min_edge", "max_edge", "avg_edge",
      "num_f", "num_v", "has_zero_area", "has_zero_edge">>

get_metrics_names ==
    <<"min_min_angle", "max_min_angle", "avg_min_angle",
      "min_max_angle", "max_max_angle", "avg_max_angle",
      "min_ratio", "max_ratio", "avg_ratio",
      "min_shape", "max_shape", "avg_shape",
      "min_edge", "max_edge", "avg_edge",
      "#F", "#V", "has_zero_area", "has_zero_edge">>

get_metrics_names_per_tri == <<"min_angle", "max_angle", "ratio", "shape">>

\* the row count above which a table is cut
ReportRows == 20

\* "name: value" for each of the 19 metrics
MetricLines(m) ==
    [j \in 1..Len(MetricsEnum) |->
        [t |-> "metric", name |-> get_metrics_names[j], value |-> m[MetricsEnum[j]]]]

\* metrics.block(0, 0, n, metrics.cols()), one item per row
TableLines(tb, n) == [j \in 1..n |-> [t |-> "row", v |-> TableRow(tb, j - 1)]]

\* the per-triangle part of the report
PerTriReport(tb) ==
    <<[t |-> "names", names |-> get_metrics_names_per_tri]>>
    \o (IF tb.rows > ReportRows
        THEN TableLines(tb, ReportRows)
             \o <<[t |-> "ellipsis", n |-> Len(get_metrics_names_per_tri)]>>
        ELSE TableLines(tb, tb.rows))

\* ls.block(0, 0, n, 1).transpose(), one item per entry
LengthItems(ls, n) == [j \in 1..n |-> [t |-> "length", v |-> ls.data[j]]]

\* the per-edge part of the report
EdgeReport(ls) ==
    <<[t |-> "edges", n |-> ls.rows]>>
    \o (IF ls.rows > ReportRows THEN LengthItems(ls, ReportRows)
        ELSE LengthItems(ls, ls.rows))
    \o <<[t |-> "endl"]>>

Main_Metrics ==
    /\ op = "main" /\ pc = "m_metrics"
    /\ metrics' = GetMetrics(V, F)
    /\ out' = out \o MetricLines(GetMetrics(V, F))
    /\ pc' = "m_per_tri"
    /\ UNCHANGED <<op, V, F, i, tab, E, lens, oob>>

Main_PerTri ==
    /\ op = "main" /\ pc = "m_per_tri"
    /\ oob' = FillOutOfRange(NumRows(F))
    /\ \/ /\ tab' = GetMetricsPerTri(V, F)
          /\ out' = out \o PerTriReport(GetMetricsPerTri(V, F))
          /\ pc' = "m_edges"
       \/ /\ FillOutOfRange(NumRows(F))
          /\ pc' = "abort"
          /\ UNCHANGED <<tab, out>>
    /\ UNCHANGED <<op, V, F, i, metrics, E, lens>>

Main_Edges ==
    /\ op = "main" /\ pc = "m_edges"
    /\ E' = Edges(F)
    /\ lens' = GetRelativeEdgeLengths(V, F)
    /\ out' = out \o EdgeReport(GetRelativeEdgeLengths(V, F)) \o <<[t |-> "took"]>>
    /\ pc' = "done"
    /\ UNCHANGED <<op, V, F, i, metrics, tab, oob>>

\* the meshes the report is run on: a strip of m triangles over m + 2 points
\* of a line, and m copies of one triangle
StripMesh(m) ==
    [V |-> [j \in 1..(m + 2) |-> <<j - 1, 0, 0>>],
     F |-> [cols |-> 3, rows |-> [r \in 1..m |-> <<r - 1, r, r + 1>>]]]

SameMesh(m) ==
    [V |-> Prefix(3),
     F |-> [cols |-> 3, rows |-> [r \in 1..m |-> <<0, 1, 2>>]]]

MainMeshes == {StripMesh(m) : m \in 0..MaxReport} \cup {SameMesh(m) : m \in 0..MaxReport}

InitMain ==
    /\ op = "main"
    /\ \E mesh \in MainMeshes : V = mesh.V /\ F = mesh.F
    /\ pc = "m_metrics"
    /\ i = 0
    /\ metrics = <<>>
    /\ tab = <<>>
    /\ E = <<>>
    /\ lens = <<>>
    /\ oob = FALSE
    /\ out = <<>>

NextMain ==
    \/ Main_Metrics
    \/ Main_PerTri
    \/ Main_Edges

SpecMain == InitMain /\ [][NextMain]_vars

(***************************************************************************)
(* Specification of the library operations                                 *)
(***************************************************************************)
Ops == {"get_metrics", "get_metrics_per_tri", "get_relative_edge_lengths"}

Init ==
    /\ op \in Ops
    /\ \E n \in VertexCounts : V = Prefix(n) /\ F \in Tables(n)
    /\ pc = "entry"
    /\ i = 0
    /\ metrics = <<>>
    /\ tab = <<>>
    /\ E = <<>>
    /\ lens = <<>>
    /\ oob = FALSE
    /\ out = <<>>

Next ==
    \/ GM_Entry
    \/ GM_Loop
    \/ GM_Return
    \/ PT_Entry
    \/ PT_Loop
    \/ PT_Return
    \/ RE_Entry
    \/ RE_Loop
    \/ RE_Return

Spec == Init /\ [][Next]_vars


(***************************************************************************)
(* Properties                                                              *)
(***************************************************************************)
M == NumRows(F)

\* triangle of table row r (0-based) and its edge lengths
Tri(r) == F.rows[r + 1]

TriEdges(r) == EdgeLens(V, Tri(r))

\* two of the three vertices of the triangle are the same point
Coincident(Vx, t) ==
    \/ Row(Vx, t[1]) = Row(Vx, t[2])
    \/ Row(Vx, t[2]) = Row(Vx, t[3])
    \/ Row(Vx, t[3]) = Row(Vx, t[1])

\* the three vertices lie on one line: (v1 - v0) x (v2 - v0) = 0
Collinear(Vx, t) ==
    LET p == Row(Vx, t[1])
        u == [c \in 1..3 |-> Row(Vx, t[2])[c] - p[c]]
        w == [c \in 1..3 |-> Row(Vx, t[3])[c] - p[c]]
    IN  /\ u[2] * w[3] - u[3] * w[2] = 0
        /\ u[3] * w[1] - u[1] * w[3] = 0
        /\ u[1] * w[2] - u[2] * w[1] = 0

\* C1: each of the three operations ends in the error outcome exactly when
\* the triangle table does not have 3 columns; the test comes first, so on
\* the error outcome nothing has been computed, and V and F never change.
C1_ThrowIffNotThreeCols ==
    /\ [](pc # "entry" => (pc = "throw" <=> F.cols # 3))
    /\ [](pc = "throw" =>
            metrics = <<>> /\ tab = <<>> /\ lens = <<>> /\ E = <<>> /\ i = 0 /\ ~oob)
    /\ [][V' = V /\ F' = F]_vars

C1_Witness ==
    /\ pc = "throw" /\ op = "get_relative_edge_lengths" /\ F.cols = 4 /\ M = 1

\* C2 (as claimed): in the returned per-triangle table a row of a triangle
\* with a zero-length edge is (0, 180, 0, 0), and a row of a zero-area
\* triangle without zero-length edge has ratio 0 and shape 0.  Stated for
\* the calls in which the fill stayed inside the table.
C2_DegenerateRowsKeepFill ==
    (op = "get_metrics_per_tri" /\ pc = "done" /\ ~oob) =>
        \A r \in 0..(M - 1) :
            /\ HasZeroEdge(TriEdges(r)) =>
                   TableRow(tab, r) = <<Zero, Num(180), Zero, Zero>>
            /\ (~HasZeroEdge(TriEdges(r)) /\ HasZeroArea(TriEdges(r))) =>
                   TableRow(tab, r)[ratio + 1] = Zero /\ TableRow(tab, r)[shape + 1] = Zero

\* C3 (as claimed): for every triangle count, get_metrics_per_tri returns a
\* table of M rows and 4 columns and never touches a row outside 0..M-1.
C3_PerTriStaysInTable ==
    (op = "get_metrics_per_tri" /\ F.cols = 3 /\ pc # "entry") =>
        /\ ~oob
        /\ pc # "abort"
        /\ tab.rows = M /\ tab.cols = 4

\* C4: the loop step of get_metrics on a triangle with two coincident
\* vertices sets has_zero_edge to 1 and changes no other entry of the array
\* (no min, max or sum accumulator, not has_zero_area); once has_zero_edge is
\* 1 no later step of the call resets it.
C4_ZeroEdgeStepFrame ==
    [][(op = "get_metrics" /\ pc = "loop") =>
         /\ (i < M /\ Coincident(V, Tri(i))) =>
                /\ metrics'.has_zero_edge = Num(1)
                /\ \A f \in MetricsFields \ {"has_zero_edge"} : metrics'[f] = metrics[f]
         /\ metrics.has_zero_edge = Num(1) => metrics'.has_zero_edge = Num(1)]_vars

C4_Witness ==
    /\ op = "get_metrics" /\ pc = "done" /\ M >= 2
    /\ ~Coincident(V, Tri(0)) /\ ~Collinear(V, Tri(0))
    /\ Coincident(V, Tri(1))
    /\ metrics.has_zero_edge = Num(1)
    /\ metrics.has_zero_area = Zero

\* C5: the loop step of get_metrics on a triangle with three distinct
\* collinear vertices sets has_zero_area to 1, leaves the ratio and shape
\* accumulators unchanged, and folds the triangle's minimum angle (0) and
\* maximum angle (180) into the six angle accumulators.
C5_ZeroAreaStep ==
    [][(op = "get_metrics" /\ pc = "loop" /\ i < M
        /\ ~Coincident(V, Tri(i)) /\ Collinear(V, Tri(i))) =>
         LET lo == TriMinAngle(TriEdges(i))
             hi == TriMaxAngle(TriEdges(i))
         IN  /\ lo = Zero /\ hi = Num(180)
             /\ metrics'.has_zero_area = Num(1)
             /\ \A f \in {"min_ratio", "max_ratio", "avg_ratio",
                          "min_shape", "max_shape", "avg_shape"} :
                    metrics'[f] = metrics[f]
             /\ metrics'.min_min_angle = StdMin(metrics.min_min_angle, lo)
             /\ metrics'.max_min_angle = StdMax(metrics.max_min_angle, lo)
             /\ metrics'.avg_min_angle = Add(metrics.avg_min_angle, lo)
             /\ metrics'.min_max_angle = StdMin(metrics.min_max_angle, hi)
             /\ metrics'.max_max_angle = StdMax(metrics.max_max_angle, hi)
             /\ metrics'.avg_max_angle = Add(metrics.avg_max_angle, hi)]_vars

C5_Witness ==
    /\ op = "get_metrics" /\ pc = "loop" /\ i = 2
    /\ ~Coincident(V, Tri(0)) /\ ~Collinear(V, Tri(0))
    /\ ~Coincident(V, Tri(1)) /\ Collinear(V, Tri(1))
    /\ metrics.has_zero_area = Num(1)
    /\ metrics.min_min_angle = Zero
    /\ metrics.max_max_angle = Num(180)

\* no triangle of the mesh enters the reductions of get_metrics
NoContribution == \A r \in 0..(M - 1) : Coincident(V, Tri(r))

\* C6 (as claimed): when no triangle contributes, get_metrics returns every
\* min field at its identity value (max() where the code sets it,
\* +infinity in the claim: either is accepted here), every max and mean
\* field 0, num_f = M and num_v = the number of vertex rows.
C6_NoContributionValues ==
    (op = "get_metrics" /\ pc = "done" /\ NoContribution) =>
        /\ \A f \in MinFields : metrics[f] \in {Inf, DblMax}
        /\ \A f \in MaxFields \cup AvgFields : metrics[f] = Zero
        /\ metrics.num_f = Num(M)
        /\ metrics.num_v = Num(Len(V))

\* C7: the accumulation of get_metrics is an associative and commutative
\* reduction: reducing any permutation of the rows, or reducing two
\* consecutive ranges from the identity values and merging the partial
\* results, gives the accumulators of the sequential pass, and the same 19
\* values after the divisions.
Identity(Vx, rows) == MetricsInit(Vx, [cols |-> 3, rows |-> rows])

Reduce(Vx, rows) == MetricsLoop(Vx, rows, 1, Len(rows), Identity(Vx, rows))

Merge(p, q) ==
    [f \in MetricsFields |->
        IF f \in MinFields THEN StdMin(p[f], q[f])
        ELSE IF f \in MaxFields \cup FlagFields THEN StdMax(p[f], q[f])
        ELSE IF f \in AvgFields \cup {"num_f"} THEN Add(p[f], q[f])
        ELSE p[f]]

Perms(n) == {p \in [1..n -> 1..n] : \A a, b \in 1..n : p[a] = p[b] => a = b}

Permute(rows, p) == [j \in 1..Len(rows) |-> rows[p[j]]]

\* every way the partial results can be obtained
Reductions ==
    {Reduce(V, Permute(F.rows, p)) : p \in Perms(M)}
    \cup {Merge(Reduce(V, SubSeq(F.rows, 1, k)), Reduce(V, SubSeq(F.rows, k + 1, M))) :
            k \in 0..M}

C7_ReductionOrderFree ==
    /\ (op = "get_metrics" /\ pc = "loop" /\ i = M) =>
           \A m \in Reductions : m = metrics
    /\ (op = "get_metrics" /\ pc = "done") =>
           \A m \in Reductions :
               (IF M = 0 THEN m ELSE MetricsNorm(V, F, m)) = metrics

C7_Witness ==
    /\ op = "get_metrics" /\ pc = "done" /\ M >= 3
    /\ metrics.has_zero_area = Num(1)
    /\ metrics.has_zero_edge = Num(1)
    /\ Less(metrics.min_ratio, DblMax)
    /\ Less(metrics.min_min_angle, metrics.max_min_angle)

\* position of the item that opens the per-edge part of the report
EdgePartStart == CHOOSE j \in 1..Len(out) : out[j].t = "edges"

TablePart == SubSeq(out, Len(MetricsEnum) + 2, EdgePartStart - 1)

EdgePart == SubSeq(out, EdgePartStart + 1, Len(out) - 2)

Shown(n) == IF n > ReportRows THEN ReportRows ELSE n

\* C8 (as claimed): the report shows the first 20 rows of the per-triangle
\* table and of the per-edge list when they are longer, followed by an
\* ellipsis marker, and the whole table without marker otherwise.
C8_ReportTruncation ==
    (op = "main" /\ pc = "done") =>
        /\ SubSeq(TablePart, 1, Shown(tab.rows)) = TableLines(tab, Shown(tab.rows))
        /\ Len(TablePart) = Shown(tab.rows) + (IF tab.rows > ReportRows THEN 1 ELSE 0)
        /\ tab.rows > ReportRows => TablePart[Len(TablePart)].t = "ellipsis"
        /\ SubSeq(EdgePart, 1, Shown(lens.rows)) = LengthItems(lens, Shown(lens.rows))
        /\ Len(EdgePart) = Shown(lens.rows) + (IF lens.rows > ReportRows THEN 1 ELSE 0)
        /\ lens.rows > ReportRows => EdgePart[Len(EdgePart)].t = "ellipsis"

\* C9 (as claimed): every loop step of get_metrics on a triangle without
\* zero-length edge, zero-area triangles included, folds a, b and c into
\* min_edge, max_edge and the edge sum.
C9_EdgeReductionOnZeroArea ==
    [][(op = "get_metrics" /\ pc = "loop" /\ i < M /\ ~HasZeroEdge(TriEdges(i))) =>
         LET e == TriEdges(i)
         IN  /\ metrics'.min_edge = StdMin(metrics.min_edge, StdMin(e[1], StdMin(e[2], e[3])))
             /\ metrics'.max_edge = StdMax(metrics.max_edge, StdMax(e[1], StdMax(e[2], e[3])))
             /\ metrics'.avg_edge = Add(metrics.avg_edge, Add(e[1], Add(e[2], e[3])))]_vars

\* x <= y on doubles
Leq(x, y) == x.k # "nan" /\ y.k # "nan" /\ ~Less(y, x)

AngleContribution == \E r \in 0..(M - 1) : ~HasZeroEdge(TriEdges(r))

ShapeContribution ==
    \E r \in 0..(M - 1) : ~HasZeroEdge(TriEdges(r)) /\ ~HasZeroArea(TriEdges(r))

Ordered(g) ==
    /\ Leq(metrics["min_" \o g], metrics["avg_" \o g])
    /\ Leq(metrics["avg_" \o g], metrics["max_" \o g])

\* C10 (as claimed): in the values get_metrics returns, each group to which
\* some triangle contributed has min <= avg <= max.
C10_MeanBetweenMinAndMax ==
    (op = "get_metrics" /\ pc = "done") =>
        /\ AngleContribution => Ordered("min_angle") /\ Ordered("max_angle")
        /\ ShapeContribution => Ordered("ratio") /\ Ordered("shape") /\ Ordered("edge")

====
